---- MODULE Spec2Model ----
(***************************************************************************)
(* Sequence-reduction engine of the sushi Post Correspondence puzzle.      *)
(*                                                                         *)
(* removeAllPairs (utils/pairLogic.ts, current version) is modelled        *)
(* statement by statement: its arguments, its locals and its loop position *)
(* are state.  removePairs (the earlier one-pair-per-call version) and     *)
(* isCleared are loop-free and are modelled as operators.                  *)
(* A belt (a JavaScript string) is a sequence of one-character strings.    *)
(***************************************************************************)
EXTENDS Integers, Sequences, FiniteSets, TLC

\* ---------------------------------------------------------------- bounds
MaxLen == 3
MaxClock == 1
MaxInputs == 4
MaxBoardInputs == 3
MaxQuietInputs == 2
MaxRawLen == 2

\* ------------------------------------------------------------- data model
SASHIMI == "S"
DANDELION == "T"
Symbols == {SASHIMI, DANDELION}

RECURSIVE SeqsUpTo(_, _)
SeqsUpTo(S, n) ==
    IF n = 0 THEN {<<>>}
    ELSE LET shorter == SeqsUpTo(S, n - 1)
         IN  shorter \cup {Append(s, x) : s \in {t \in shorter : Len(t) = n - 1}, x \in S}

Belts == SeqsUpTo(Symbols, MaxLen)

NoResult == [none |-> TRUE]

Min(a, b) == IF a <= b THEN a ELSE b

\* ---------------------------------------------------------- problem data
\* A problem without a solution field has solution = <<>>; tile indices in
\* solution count from 0 as in the source.
\* types/index.ts, lines 29-218
sampleProblems == <<
    [id |-> "1", difficulty |-> "np-hard", solvable |-> TRUE,
     solution |-> <<0>>,
     initialState |-> [topBelt |-> <<"S">>, bottomBelt |-> <<>>],
     tiles |-> <<[top |-> <<>>, bottom |-> <<"T">>]>>],
    [id |-> "2", difficulty |-> "np-hard", solvable |-> TRUE,
     solution |-> <<0, 1>>,
     initialState |-> [topBelt |-> <<"S">>, bottomBelt |-> <<>>],
     tiles |-> <<[top |-> <<"T">>, bottom |-> <<"T">>], [top |-> <<>>, bottom |-> <<"S">>]>>],
    [id |-> "3", difficulty |-> "np-hard", solvable |-> TRUE,
     solution |-> <<0, 0, 1>>,
     initialState |-> [topBelt |-> <<"T", "S", "T">>, bottomBelt |-> <<>>],
     tiles |-> <<[top |-> <<"S">>, bottom |-> <<"S", "T">>], [top |-> <<"T">>, bottom |-> <<"T", "S">>]>>],
    [id |-> "4", difficulty |-> "np-hard", solvable |-> TRUE,
     solution |-> <<1, 1, 0, 1>>,
     initialState |-> [topBelt |-> <<"S", "T", "S", "S">>, bottomBelt |-> <<>>],
     tiles |-> <<[top |-> <<"S", "S">>, bottom |-> <<"S", "T", "T">>], [top |-> <<"T", "S">>, bottom |-> <<"T", "S", "T">>]>>],
    [id |-> "5", difficulty |-> "np-hard", solvable |-> TRUE,
     solution |-> <<0, 1, 2>>,
     initialState |-> [topBelt |-> <<"T", "T">>, bottomBelt |-> <<>>],
     tiles |-> <<[top |-> <<"S">>, bottom |-> <<"S">>], [top |-> <<"S">>, bottom |-> <<"S", "T">>], [top |-> <<"T">>, bottom |-> <<"T", "S">>]>>],
    [id |-> "6", difficulty |-> "np-hard", solvable |-> TRUE,
     solution |-> <<0, 2, 2, 0, 1>>,
     initialState |-> [topBelt |-> <<"T", "S", "T", "T">>, bottomBelt |-> <<>>],
     tiles |-> <<[top |-> <<"S">>, bottom |-> <<"S">>], [top |-> <<"S">>, bottom |-> <<"S", "T", "T">>], [top |-> <<"T", "T">>, bottom |-> <<"T", "S", "S">>]>>],
    [id |-> "7", difficulty |-> "np-hard", solvable |-> TRUE,
     solution |-> <<0, 0, 0, 1, 2, 2, 2, 0, 0, 1, 2, 2, 0, 1, 2, 1>>,
     initialState |-> [topBelt |-> <<"T", "T", "T", "T">>, bottomBelt |-> <<>>],
     tiles |-> <<[top |-> <<"S">>, bottom |-> <<"S">>], [top |-> <<"T">>, bottom |-> <<"T">>], [top |-> <<"S">>, bottom |-> <<"S", "T">>]>>],
    [id |-> "8", difficulty |-> "np-hard", solvable |-> TRUE,
     solution |-> <<2, 2, 2, 2, 0, 2, 0, 2, 0, 2, 1, 1, 1, 1, 2, 2, 2, 0, 2, 0, 2, 1, 1, 1, 2, 2, 0, 2, 1, 1, 2, 1>>,
     initialState |-> [topBelt |-> <<"S", "S", "S", "S">>, bottomBelt |-> <<>>],
     tiles |-> <<[top |-> <<"S">>, bottom |-> <<"S">>], [top |-> <<"S">>, bottom |-> <<"S", "T", "T">>], [top |-> <<"T", "S">>, bottom |-> <<"T">>]>>],
    [id |-> "9", difficulty |-> "np-hard", solvable |-> TRUE,
     solution |-> <<>>,
     initialState |-> [topBelt |-> <<"T", "T">>, bottomBelt |-> <<>>],
     tiles |-> <<[top |-> <<"S", "T", "T">>, bottom |-> <<"T">>], [top |-> <<"T">>, bottom |-> <<"T", "S", "S">>], [top |-> <<"S">>, bottom |-> <<"S">>]>>],
    [id |-> "10", difficulty |-> "np-hard", solvable |-> TRUE,
     solution |-> <<>>,
     initialState |-> [topBelt |-> <<>>, bottomBelt |-> <<"S", "T">>],
     tiles |-> <<[top |-> <<"T", "T", "S", "T">>, bottom |-> <<"S">>], [top |-> <<"S", "T", "T", "S">>, bottom |-> <<"S", "S">>], [top |-> <<"T">>, bottom |-> <<"S", "S", "T">>]>>],
    [id |-> "11", difficulty |-> "np-hard", solvable |-> TRUE,
     solution |-> <<>>,
     initialState |-> [topBelt |-> <<>>, bottomBelt |-> <<"T", "S">>],
     tiles |-> <<[top |-> <<"T", "T", "S", "T">>, bottom |-> <<"T", "S", "T">>], [top |-> <<"S", "T">>, bottom |-> <<"S">>], [top |-> <<"T">>, bottom |-> <<"S", "T", "S">>]>>],
    [id |-> "12", difficulty |-> "np-hard", solvable |-> TRUE,
     solution |-> <<>>,
     initialState |-> [topBelt |-> <<>>, bottomBelt |-> <<"S", "T">>],
     tiles |-> <<[top |-> <<"S", "T", "T", "S">>, bottom |-> <<"T">>], [top |-> <<"T">>, bottom |-> <<"S", "S", "T">>], [top |-> <<"T", "S">>, bottom |-> <<"S">>]>>],
    [id |-> "103", difficulty |-> "undecidable", solvable |-> FALSE,
     solution |-> <<>>,
     initialState |-> [topBelt |-> <<"S", "T", "S">>, bottomBelt |-> <<"T", "S", "T">>],
     tiles |-> <<[top |-> <<"S">>, bottom |-> <<"T">>], [top |-> <<"T">>, bottom |-> <<"S">>]>>]
>>

\* data/problems.ts, lines 7-50
sampleProblemsData == <<
    [id |-> "1", difficulty |-> "np-hard", solvable |-> TRUE,
     solution |-> <<0, 1>>,
     initialState |-> [topBelt |-> <<"S", "S", "T">>, bottomBelt |-> <<>>],
     tiles |-> <<[top |-> <<>>, bottom |-> <<"S">>], [top |-> <<>>, bottom |-> <<"T">>]>>],
    [id |-> "2", difficulty |-> "np-hard", solvable |-> TRUE,
     solution |-> <<0, 2, 1>>,
     initialState |-> [topBelt |-> <<"S", "S", "T">>, bottomBelt |-> <<>>],
     tiles |-> <<[top |-> <<"S">>, bottom |-> <<"T">>], [top |-> <<"T">>, bottom |-> <<"S">>], [top |-> <<"S", "T">>, bottom |-> <<"T", "S">>]>>],
    [id |-> "3", difficulty |-> "undecidable", solvable |-> FALSE,
     solution |-> <<>>,
     initialState |-> [topBelt |-> <<"S", "T", "S">>, bottomBelt |-> <<"T", "S", "T">>],
     tiles |-> <<[top |-> <<"S">>, bottom |-> <<"T">>], [top |-> <<"T">>, bottom |-> <<"S">>]>>]
>>

\* the problems the game board is opened on
BoardProblems == {sampleProblems[1], sampleProblems[2], sampleProblems[5], sampleProblems[13]}

\* ------------------------------------------------------------------ state
VARIABLES
    topBelt, bottomBelt,                  \* arguments of the current call
    pc,                                   \* position inside removeAllPairs
    currentTopBelt, currentBottomBelt,    \* locals of removeAllPairs
    allRemovedPairs, hasAnyRemovals, pairIndex,
    consumedTop, consumedBottom,
    topAnimations, bottomAnimations,
    result,                               \* value returned by removeAllPairs
    previous,                             \* result of the preceding call
    single,                               \* value returned by removePairs
    now,                                  \* Date.now()
    earlier,                              \* result of an earlier call with the same arguments
    chain,                                \* results of removePairs called on its own output
    problem,                              \* GameBoard props: the problem played
    board,                                \* GameBoard component state (useState cells)
    timers,                               \* pending setTimeout callbacks
    currentScreen, gameState,             \* App component state
    clearData,                            \* localStorage clear records
    inputs, lastInput,                    \* the player's inputs so far, the latest one
    solutionStep                          \* position in the authored solution being replayed

args == <<topBelt, bottomBelt>>
locals == <<currentTopBelt, currentBottomBelt, allRemovedPairs, hasAnyRemovals,
            pairIndex, consumedTop, consumedBottom, topAnimations, bottomAnimations>>
reducerVars == <<topBelt, bottomBelt, pc, currentTopBelt, currentBottomBelt,
                 allRemovedPairs, hasAnyRemovals, pairIndex, consumedTop, consumedBottom,
                 topAnimations, bottomAnimations, result, previous, single, now,
                 earlier, chain>>
appVars == <<currentScreen, gameState, clearData>>
boardVars == <<problem, board, timers, appVars, inputs, lastInput, solutionStep>>
vars == <<reducerVars, boardVars>>

\* ------------------------------------------------------- pure operations
\* str[0]: the first character, undefined for the empty string
CharAt0(belt) == IF Len(belt) > 0 THEN belt[1] ELSE "undefined"

\* slice(1) under a plausible slip: the belt is not shortened
SliceKeep(belt) == belt

\* str.slice(1) as written for the top belt and for the bottom belt
SliceTop(belt) == IF Len(belt) = 0 THEN <<>> ELSE Tail(belt)

SliceBottom(belt) == IF Len(belt) = 0 THEN <<>> ELSE Tail(belt)

\* the pair test under plausible slips: one orientation only; equal heads
IsPairOneWay(topChar, bottomChar) ==
    topChar = "S" /\ bottomChar = "T"

IsPairEqual(topChar, bottomChar) ==
    topChar = bottomChar

\* the pair test under a plausible slip: any two unequal characters
IsPairUnequal(topChar, bottomChar) ==
    topChar # bottomChar

IsPair(topChar, bottomChar) ==
    \/ (topChar = "S" /\ bottomChar = "T")
    \/ (topChar = "T" /\ bottomChar = "S")

Normal(belt) == [i \in 1..Len(belt) |-> [state |-> "normal"]]

\* the solved test under a plausible slip: || for &&
isClearedEither(top, bottom) == Len(top) = 0 \/ Len(bottom) = 0

isCleared(top, bottom) == Len(top) = 0 /\ Len(bottom) = 0

\* the head test of removePairs under a plausible slip: unequal heads,
\* without the length checks
PairAtHeadUnequal(top, bottom) ==
    CharAt0(top) # CharAt0(bottom)

\* the two nested conditions of removePairs
PairAtHead(top, bottom) ==
    /\ Len(top) > 0 /\ Len(bottom) > 0
    /\ IsPair(CharAt0(top), CharAt0(bottom))

removePairs(top, bottom) ==
    IF PairAtHead(top, bottom)
    THEN [newTopBelt |-> SliceTop(top),
          newBottomBelt |-> SliceBottom(bottom),
          removedPairs |-> <<[top |-> CharAt0(top), bottom |-> CharAt0(bottom)]>>,
          hasRemovals |-> TRUE]
    ELSE [newTopBelt |-> top,
          newBottomBelt |-> bottom,
          removedPairs |-> <<>>,
          hasRemovals |-> FALSE]

\* ---------------------------------------------------------------- actions
\* no call of the reducers has been made yet
ReducerStart ==
    /\ pc = "entry"
    /\ currentTopBelt = <<>>
    /\ currentBottomBelt = <<>>
    /\ allRemovedPairs = <<>>
    /\ hasAnyRemovals = FALSE
    /\ pairIndex = 0
    /\ consumedTop = 0
    /\ consumedBottom = 0
    /\ topAnimations = <<>>
    /\ bottomAnimations = <<>>
    /\ result = NoResult
    /\ previous = NoResult
    /\ single = NoResult
    /\ now = 0
    /\ earlier = NoResult
    /\ chain = <<>>

Null == "null"

\* App.tsx lines 11-19
InitialGameState ==
    [currentProblem |-> Null, selectedTiles |-> <<>>, topBelt |-> <<>>,
     bottomBelt |-> <<>>, gameMode |-> "np-hard", isCompleted |-> FALSE]

\* App.tsx lines 11-19: the title screen, no problem selected, nothing pending
NoGame ==
    /\ problem = Null
    /\ board = Null
    /\ timers = <<>>
    /\ currentScreen = "title"
    /\ gameState = InitialGameState
    /\ clearData = {}
    /\ inputs = 0
    /\ lastInput = Null
    /\ solutionStep = 0

\* the reducers are called on every pair of belts; no game is open
Init ==
    /\ topBelt \in Belts
    /\ bottomBelt \in Belts
    /\ ReducerStart
    /\ NoGame

\* the initialisation under a plausible slip: the list of removed pairs is
\* kept from the preceding call (hoisted out of the function)
EnterKeepPairs ==
    /\ pc = "entry"
    /\ allRemovedPairs' = allRemovedPairs
    /\ currentTopBelt' = topBelt
    /\ currentBottomBelt' = bottomBelt
    /\ hasAnyRemovals' = FALSE
    /\ pairIndex' = 0
    /\ topAnimations' = Normal(topBelt)
    /\ bottomAnimations' = Normal(bottomBelt)
    /\ consumedTop' = 0
    /\ consumedBottom' = 0
    /\ pc' = "while"
    /\ UNCHANGED <<args, result, previous, single, now, earlier, chain, boardVars>>

\* lines 88-104: the locals are initialised from the arguments
Enter ==
    /\ pc = "entry"
    /\ allRemovedPairs' = <<>>
    /\ currentTopBelt' = topBelt
    /\ currentBottomBelt' = bottomBelt
    /\ hasAnyRemovals' = FALSE
    /\ pairIndex' = 0
    /\ topAnimations' = Normal(topBelt)
    /\ bottomAnimations' = Normal(bottomBelt)
    /\ consumedTop' = 0
    /\ consumedBottom' = 0
    /\ pc' = "while"
    /\ UNCHANGED <<args, result, previous, single, now, earlier, chain, boardVars>>

\* the loop condition under a plausible slip: at most one pair per call,
\* as in the earlier removePairs
WhileCondOnePair ==
    Len(currentTopBelt) > 0 /\ Len(currentBottomBelt) > 0 /\ pairIndex < 1

WhileCond ==
    Len(currentTopBelt) > 0 /\ Len(currentBottomBelt) > 0

\* lines 106-129: one iteration that finds a pair
LoopRemove ==
    /\ pc = "while"
    /\ WhileCond
    /\ LET topChar == CharAt0(currentTopBelt)
           bottomChar == CharAt0(currentBottomBelt)
       IN  /\ IsPair(topChar, bottomChar)
           /\ allRemovedPairs' = Append(allRemovedPairs,
                  [top |-> topChar, bottom |-> bottomChar,
                   topIndex |-> consumedTop, bottomIndex |-> consumedBottom])
    /\ topAnimations' = [topAnimations EXCEPT ![consumedTop + 1] =
                            [state |-> "move-from-top", pairIndex |-> pairIndex]]
    /\ bottomAnimations' = [bottomAnimations EXCEPT ![consumedBottom + 1] =
                            [state |-> "move-from-bottom", pairIndex |-> pairIndex]]
    /\ currentTopBelt' = SliceTop(currentTopBelt)
    /\ currentBottomBelt' = SliceBottom(currentBottomBelt)
    /\ consumedTop' = consumedTop + 1
    /\ consumedBottom' = consumedBottom + 1
    /\ hasAnyRemovals' = TRUE
    /\ pairIndex' = pairIndex + 1
    /\ UNCHANGED <<args, pc, result, previous, single, now, earlier, chain, boardVars>>

\* lines 130-133: the heads are not a pair, break
LoopBreak ==
    /\ pc = "while"
    /\ WhileCond
    /\ ~IsPair(CharAt0(currentTopBelt), CharAt0(currentBottomBelt))
    /\ pc' = "after"
    /\ UNCHANGED <<args, locals, result, previous, single, now, earlier, chain, boardVars>>

\* line 106: a belt is exhausted, the loop ends
LoopExit ==
    /\ pc = "while"
    /\ ~WhileCond
    /\ pc' = "after"
    /\ UNCHANGED <<args, locals, result, previous, single, now, earlier, chain, boardVars>>

\* lines 137-149: the elements left on a belt slide forward
SlideForward(animations, consumed, slideDistance) ==
    [i \in 1..Len(animations) |->
        IF i > consumed /\ consumed > 0
        THEN [state |-> "slide-forward", slideDistance |-> slideDistance]
        ELSE animations[i]]

\* the readings of Date.now() taken by n successive callbacks of map
ClockReadings(n) ==
    {ts \in [1..n -> now..MaxClock] : \A i \in 1..n : \A j \in i..n : ts[i] <= ts[j]}

\* lines 152-161; position is in hundredths of a percent (18.75, 74.5)
MergedElementsOf(pairs, ts) ==
    [i \in 1..Len(pairs) |->
        [id |-> <<"merged", ts[i], i - 1>>,
         pairIndex |-> i - 1,
         topChar |-> pairs[i].top,
         bottomChar |-> pairs[i].bottom,
         position |-> [x |-> 1875, y |-> 7450]]]

\* lines 136-171: the animations are completed and the result is returned
Return ==
    /\ pc = "after"
    /\ \E ts \in ClockReadings(Len(allRemovedPairs)) :
        /\ result' =
              [newTopBelt |-> currentTopBelt,
               newBottomBelt |-> currentBottomBelt,
               removedPairs |-> allRemovedPairs,
               hasRemovals |-> hasAnyRemovals,
               topAnimations |-> SlideForward(topAnimations, consumedTop, consumedTop * 56),
               bottomAnimations |-> SlideForward(bottomAnimations, consumedBottom, consumedTop * 56),
               mergedElements |-> MergedElementsOf(allRemovedPairs, ts)]
        /\ now' = IF Len(allRemovedPairs) = 0 THEN now ELSE ts[Len(allRemovedPairs)]
    /\ pc' = "done"
    /\ UNCHANGED <<args, locals, previous, single, earlier, chain, boardVars>>

\* the reducer is applied to the belts it returned (GameBoard sets the belts
\* to the result and its effect reduces the new belts again)
Reapply ==
    /\ pc = "done"
    /\ previous = NoResult
    /\ earlier = NoResult
    /\ previous' = result
    /\ topBelt' = result.newTopBelt
    /\ bottomBelt' = result.newBottomBelt
    /\ single' = NoResult
    /\ chain' = <<>>
    /\ pc' = "entry"
    /\ UNCHANGED <<locals, result, now, earlier, boardVars>>

\* the one-pair reducer is called with the same arguments
CallRemovePairs ==
    /\ pc \in {"entry", "done"}
    /\ single = NoResult
    /\ single' = removePairs(topBelt, bottomBelt)
    /\ UNCHANGED <<args, pc, locals, result, previous, now, earlier, chain, boardVars>>

\* time passes between two calls
Tick ==
    /\ pc \in {"entry", "done"}
    /\ now < MaxClock
    /\ now' = now + 1
    /\ UNCHANGED <<args, pc, locals, result, previous, single, earlier, chain, boardVars>>

\* a second call with the same arguments (the GameBoard calls removeAllPairs
\* on the same belts in handleTileClick and again in its effect)
Recall ==
    /\ pc = "done"
    /\ previous = NoResult
    /\ earlier = NoResult
    /\ earlier' = result
    /\ pc' = "entry"
    /\ UNCHANGED <<args, locals, result, previous, single, now, chain, boardVars>>

\* removePairs is called on the arguments and then, while it reports a
\* removal, on the belts it returned (one pair per pass of the effect)
IteratePairs ==
    /\ pc \in {"entry", "done"}
    /\ \/ /\ chain = <<>>
          /\ chain' = <<removePairs(topBelt, bottomBelt)>>
       \/ /\ chain # <<>>
          /\ chain[Len(chain)].hasRemovals
          /\ chain' = Append(chain, removePairs(chain[Len(chain)].newTopBelt,
                                                chain[Len(chain)].newBottomBelt))
    /\ UNCHANGED <<args, pc, locals, result, previous, single, now, earlier, boardVars>>

\* ------------------------------------------- removeAllPairs as one function
\* the loop of lines 106-134 on the working belts and the pairs recorded so far
RECURSIVE RemoveLoop(_, _, _)
RemoveLoop(curTop, curBottom, pairs) ==
    IF /\ Len(curTop) > 0 /\ Len(curBottom) > 0
       /\ IsPair(CharAt0(curTop), CharAt0(curBottom))
    THEN RemoveLoop(SliceTop(curTop), SliceBottom(curBottom),
                    Append(pairs, [top |-> CharAt0(curTop), bottom |-> CharAt0(curBottom),
                                   topIndex |-> Len(pairs), bottomIndex |-> Len(pairs)]))
    ELSE [top |-> curTop, bottom |-> curBottom, pairs |-> pairs]

\* lines 120-122: the removed positions are marked
MarkRemoved(animations, n, stateName) ==
    [i \in 1..Len(animations) |->
        IF i <= n THEN [state |-> stateName, pairIndex |-> i - 1] ELSE animations[i]]

\* the whole call; every Date.now() of the call reads the clock value t
removeAllPairs(top, bottom, t) ==
    LET loop == RemoveLoop(top, bottom, <<>>)
        n == Len(loop.pairs)
    IN  [newTopBelt |-> loop.top,
         newBottomBelt |-> loop.bottom,
         removedPairs |-> loop.pairs,
         hasRemovals |-> n > 0,
         topAnimations |->
             SlideForward(MarkRemoved(Normal(top), n, "move-from-top"), n, n * 56),
         bottomAnimations |->
             SlideForward(MarkRemoved(Normal(bottom), n, "move-from-bottom"), n, n * 56),
         mergedElements |-> MergedElementsOf(loop.pairs, [i \in 1..n |-> t])]

Next ==
    \/ Enter
    \/ LoopRemove
    \/ LoopBreak
    \/ LoopExit
    \/ Return
    \/ Reapply
    \/ CallRemovePairs
    \/ Tick
    \/ Recall
    \/ IteratePairs

Spec == Init /\ [][Next]_vars

\* removeAllPairs is synchronous code: once entered it runs to its return
FairSpec == Spec /\ WF_vars(LoopRemove \/ LoopBreak \/ LoopExit \/ Return)

\* ------------------------------------------------------- malformed belts
\* The reducers take any string.  A belt may hold a character that is
\* neither SASHIMI nor DANDELION.
OtherCharacters == {"X"}

RawBelts == SeqsUpTo(Symbols \cup OtherCharacters, MaxRawLen)

\* the reducers are called on every pair of strings; no game is open
RawInit ==
    /\ topBelt \in RawBelts
    /\ bottomBelt \in RawBelts
    /\ ReducerStart
    /\ NoGame

\* one call of removeAllPairs and one call of removePairs on the arguments
RawNext ==
    \/ Enter
    \/ LoopRemove
    \/ LoopBreak
    \/ LoopExit
    \/ Return
    \/ CallRemovePairs

RawSpec == RawInit /\ [][RawNext]_vars

\* =================================================================== GameBoard
\* The GameBoard component (components/GameBoard.tsx, current version) and the
\* App state it reports to.  A handler is one step: its state updates, the
\* re-render they cause and the effect that follows the re-render.  A pending
\* setTimeout is a record holding the time left (unit 100 ms) and the values
\* its callback closed over.
\* setTimeout delays, in units of 100 ms
NewItemDelay == 3
ShippingDelay == 4
FinishDelay == 8
ClearDelay == 5

BeltState(top, bottom) == [topBelt |-> top, bottomBelt |-> bottom]

\* lines 20-40: the useState initial values
InitialBoard(p) ==
    [beltHistory |-> <<BeltState(p.initialState.topBelt, p.initialState.bottomBelt)>>,
     currentHistoryIndex |-> 0,
     topBelt |-> p.initialState.topBelt,
     bottomBelt |-> p.initialState.bottomBelt,
     isShipping |-> FALSE,
     newTopItemsCount |-> 0,
     newBottomItemsCount |-> 0,
     topAnimations |-> <<>>,
     bottomAnimations |-> <<>>,
     animationPhase |-> "idle",
     mergedElements |-> <<>>,
     animationTimeouts |-> <<>>,
     pendingFinalState |-> Null]

\* the id returned by setTimeout: one not in use
TimerIds(tms) == {tms[k].id : k \in 1..Len(tms)}

NewTimerId(used) == CHOOSE n \in 1..(Cardinality(used) + 1) :
                        n \notin used /\ \A m \in 1..(n - 1) : m \in used

UsedIds(b, tms) == TimerIds(tms) \cup {b.animationTimeouts[k] : k \in 1..Len(b.animationTimeouts)}

\* a pending callback: the belts it closed over and reads (none for a
\* callback that reads no belt) and, for the callback that ends an
\* animation, the reduced belts it will set
Timer(id, kind, delay, top, bottom, reduced) ==
    [id |-> id, kind |-> kind, remaining |-> delay,
     topBelt |-> top, bottomBelt |-> bottom, result |-> reduced]

\* the component is mounted while the game screen is shown (App.tsx 80-87)
Mounted == currentScreen = "game"

\* line 190: the dependency list of the effect
EffectDeps(b) ==
    <<b.topBelt, b.bottomBelt, b.newTopItemsCount, b.newBottomItemsCount, b.animationPhase>>

\* lines 122-130: the effect body of a render showing b schedules its callback
EffectTimers(b, tms) ==
    IF b.animationPhase # "idle" THEN tms
    ELSE LET hasNewItems == b.newTopItemsCount > 0 \/ b.newBottomItemsCount > 0
         IN  Append(tms, Timer(NewTimerId(UsedIds(b, tms)), "effect",
                               IF hasNewItems THEN NewItemDelay ELSE 0,
                               b.topBelt, b.bottomBelt, Null))

\* the re-render under a plausible slip: an empty dependency list, the
\* effect runs on mount only
RenderedNoEffect(old, new, tms) == tms

\* the re-render after state updates: the effect runs if a dependency changed
Rendered(old, new, tms) ==
    IF EffectDeps(old) = EffectDeps(new) THEN tms ELSE EffectTimers(new, tms)

\* state updates reach a mounted component only
Commit(new, tms) ==
    IF Mounted
    THEN /\ board' = new
         /\ timers' = Rendered(board, new, tms)
    ELSE /\ board' = board
         /\ timers' = tms

RemoveAt(s, k) == [i \in 1..(Len(s) - 1) |-> IF i < k THEN s[i] ELSE s[i + 1]]

Due(k) == k \in 1..Len(timers) /\ timers[k].remaining = 0

Input(kind, tile, accepted) == [kind |-> kind, tile |-> tile, accepted |-> accepted]

\* the board is at rest: no animation, no new-item mark, no pending timer
Settled ==
    /\ Mounted
    /\ board.animationPhase = "idle"
    /\ board.newTopItemsCount = 0
    /\ board.newBottomItemsCount = 0
    /\ timers = <<>>

\* an input of the player reaches a handler of the mounted component; a tile
\* selection is noted with the belts it found and whether the board was at rest
PlayerInput(entry) ==
    /\ Mounted
    /\ inputs < MaxInputs
    /\ inputs' = inputs + 1
    /\ lastInput' = [kind |-> entry.kind, tile |-> entry.tile, accepted |-> entry.accepted,
                     before |-> IF entry.kind = "tile"
                                THEN BeltState(board.topBelt, board.bottomBelt)
                                ELSE BeltState(<<>>, <<>>),
                     settled |-> entry.kind = "tile" /\ Settled]

\* the input block under a plausible slip: the new-item marks are ignored
BlockedByPhaseOnly(b) ==
    b.animationPhase # "idle"

\* lines 73-76: input is blocked during an animation
Blocked(b) ==
    LET hasNewItems == b.newTopItemsCount > 0 \/ b.newBottomItemsCount > 0
    IN  b.animationPhase # "idle" \/ hasNewItems

\* the tile block under a plausible slip: length > 1 for length > 0
TilesDisabledWhenLonger(b) ==
    Len(b.topBelt) > 1 /\ Len(b.bottomBelt) > 1

\* lines 78-81: the tiles are disabled while neither belt is empty
TilesDisabled(b) ==
    Len(b.topBelt) > 0 /\ Len(b.bottomBelt) > 0

\* line 83
NewTop(b, tile) == b.topBelt \o tile.top

\* line 84 under a plausible slip: the top fragment is appended to both belts
NewBottomFromTop(b, tile) == b.bottomBelt \o tile.top

\* line 84
NewBottom(b, tile) == b.bottomBelt \o tile.bottom

\* lines 89-90 under a plausible slip: the history is not cut at the index
NewHistoryUncut(b, newState) ==
    Append(b.beltHistory, BeltState(newState.newTopBelt, newState.newBottomBelt))

\* lines 87-90: the history up to the current index, then the new state
NewHistory(b, newState) ==
    Append(SubSeq(b.beltHistory, 1, b.currentHistoryIndex + 1),
           BeltState(newState.newTopBelt, newState.newBottomBelt))

\* lines 71-108: handleTileClick(tileIndex), then the re-render and its effect
TileClick(tileIndex) ==
    LET blocked == Blocked(board)
        disabled == TilesDisabled(board)
        tile == problem.tiles[tileIndex + 1]
        newTop == NewTop(board, tile)
        newBottom == NewBottom(board, tile)
        newState == removeAllPairs(newTop, newBottom, now)
        newHistory == NewHistory(board, newState)
    IN  /\ PlayerInput(Input("tile", tileIndex, ~blocked /\ ~disabled))
        /\ IF blocked \/ disabled
           THEN UNCHANGED <<board, timers>>
           ELSE Commit([board EXCEPT !.beltHistory = newHistory,
                                     !.currentHistoryIndex = Len(newHistory) - 1,
                                     !.topBelt = newTop,
                                     !.bottomBelt = newBottom,
                                     !.newTopItemsCount = Len(tile.top),
                                     !.newBottomItemsCount = Len(tile.bottom)],
                       Append(timers, Timer(NewTimerId(UsedIds(board, timers)), "newItems",
                                            NewItemDelay, <<>>, <<>>, Null)))
        /\ UNCHANGED <<reducerVars, problem, appVars, solutionStep>>

\* the history entry read by undo under a plausible slip: the current entry
PreviousStateCurrent(b) == b.beltHistory[b.currentHistoryIndex + 1]

\* lines 113-114: beltHistory[currentHistoryIndex - 1]
PreviousState(b) == b.beltHistory[(b.currentHistoryIndex - 1) + 1]

\* lines 111-119: handleUndo
Undo ==
    /\ PlayerInput(Input("undo", -1, board.currentHistoryIndex > 0 /\ board.animationPhase = "idle"))
    /\ IF board.currentHistoryIndex > 0 /\ board.animationPhase = "idle"
       THEN LET newIndex == board.currentHistoryIndex - 1
                previousState == PreviousState(board)
            IN  Commit([board EXCEPT !.currentHistoryIndex = newIndex,
                                     !.topBelt = previousState.topBelt,
                                     !.bottomBelt = previousState.bottomBelt],
                       timers)
       ELSE UNCHANGED <<board, timers>>
    /\ UNCHANGED <<reducerVars, problem, appVars, solutionStep>>

\* lines 43-69: cancelAnimationsAndApplyFinalState, as a pair <<board, timers>>
CancelAnimationsAndApplyFinalState(b, tms) ==
    LET cancelled == {b.animationTimeouts[k] : k \in 1..Len(b.animationTimeouts)}
        kept == SelectSeq(tms, LAMBDA t : t.id \notin cancelled)
        reset == [b EXCEPT !.animationTimeouts = <<>>,
                           !.topAnimations = <<>>,
                           !.bottomAnimations = <<>>,
                           !.mergedElements = <<>>,
                           !.animationPhase = "idle",
                           !.isShipping = FALSE]
    IN  IF b.pendingFinalState # Null
        THEN << [reset EXCEPT !.topBelt = b.pendingFinalState.topBelt,
                              !.bottomBelt = b.pendingFinalState.bottomBelt,
                              !.newTopItemsCount = b.pendingFinalState.newTopItemsCount,
                              !.newBottomItemsCount = b.pendingFinalState.newBottomItemsCount,
                              !.pendingFinalState = Null],
                Append(kept, Timer(NewTimerId(TimerIds(kept)), "newItems", NewItemDelay,
                                   <<>>, <<>>, Null)) >>
        ELSE <<reset, kept>>

\* lines 192-208: handleClearAll
ClearAll ==
    /\ PlayerInput(Input("reset", -1, TRUE))
    /\ LET after == IF board.animationPhase # "idle"
                    THEN CancelAnimationsAndApplyFinalState(board, timers)
                    ELSE <<board, timers>>
       IN  Commit([after[1] EXCEPT
                      !.beltHistory = <<BeltState(problem.initialState.topBelt,
                                                  problem.initialState.bottomBelt)>>,
                      !.currentHistoryIndex = 0,
                      !.topBelt = problem.initialState.topBelt,
                      !.bottomBelt = problem.initialState.bottomBelt,
                      !.newTopItemsCount = 0,
                      !.newBottomItemsCount = 0,
                      !.pendingFinalState = Null],
                  after[2])
    /\ UNCHANGED <<reducerVars, problem, appVars, solutionStep>>

\* App.tsx lines 21-26: handleNavigate(screen) without a game mode
handleNavigate(screen) == currentScreen' = screen

\* handleImpossible under a plausible slip: the button is rendered in every mode
ImpossibleInEveryMode ==
    /\ PlayerInput(Input("impossible", -1, TRUE))
    /\ handleNavigate("clear")
    /\ UNCHANGED <<reducerVars, problem, board, timers, gameState, clearData, solutionStep>>

\* lines 210-213 and 332-342: handleImpossible, offered in undecidable mode
Impossible ==
    /\ problem.difficulty = "undecidable"
    /\ PlayerInput(Input("impossible", -1, TRUE))
    /\ handleNavigate("clear")
    /\ UNCHANGED <<reducerVars, problem, board, timers, gameState, clearData, solutionStep>>

\* line 221: the back button
NavigateBack ==
    /\ PlayerInput(Input("back", -1, TRUE))
    /\ handleNavigate("problem-select")
    /\ UNCHANGED <<reducerVars, problem, board, timers, gameState, clearData, solutionStep>>

\* lines 102-105: the new-item marks are cleared
FireNewItems ==
    \E k \in 1..Len(timers) :
        /\ Due(k)
        /\ timers[k].kind = "newItems"
        /\ Commit([board EXCEPT !.newTopItemsCount = 0, !.newBottomItemsCount = 0],
                  RemoveAt(timers, k))
        /\ UNCHANGED <<reducerVars, problem, appVars, inputs, lastInput, solutionStep>>

\* lines 130-189: the callback of the effect, on the belts it closed over
FireEffect ==
    \E k \in 1..Len(timers) :
        /\ Due(k)
        /\ timers[k].kind = "effect"
        /\ LET t == timers[k]
               rest == RemoveAt(timers, k)
               res == removeAllPairs(t.topBelt, t.bottomBelt, now)
               timeout1 == NewTimerId(UsedIds(board, rest))
               timeout2 == NewTimerId(UsedIds(board, rest) \cup {timeout1})
               clearTimer == Timer(NewTimerId(UsedIds(board, rest)), "clear", ClearDelay,
                                   <<>>, <<>>, Null)
           IN  IF Len(t.topBelt) > 0 /\ Len(t.bottomBelt) > 0
               THEN IF res.hasRemovals
                    THEN Commit([board EXCEPT !.isShipping = TRUE,
                                              !.animationPhase = "merging",
                                              !.topAnimations = res.topAnimations,
                                              !.bottomAnimations = res.bottomAnimations,
                                              !.mergedElements = res.mergedElements,
                                              !.animationTimeouts = <<timeout1, timeout2>>],
                                rest \o <<Timer(timeout1, "shipping", ShippingDelay,
                                                <<>>, <<>>, Null),
                                          Timer(timeout2, "finish", FinishDelay,
                                                t.topBelt, t.bottomBelt,
                                                BeltState(res.newTopBelt, res.newBottomBelt))>>)
                    ELSE IF isCleared(t.topBelt, t.bottomBelt)
                         THEN Commit(board, Append(rest, clearTimer))
                         ELSE Commit(board, rest)
               ELSE IF isCleared(t.topBelt, t.bottomBelt)
                    THEN Commit(board, Append(rest, clearTimer))
                    ELSE Commit(board, rest)
        /\ UNCHANGED <<reducerVars, problem, appVars, inputs, lastInput, solutionStep>>

\* lines 149-152
FireShipping ==
    \E k \in 1..Len(timers) :
        /\ Due(k)
        /\ timers[k].kind = "shipping"
        /\ Commit([board EXCEPT !.animationPhase = "shipping"], RemoveAt(timers, k))
        /\ UNCHANGED <<reducerVars, problem, appVars, inputs, lastInput, solutionStep>>

\* lines 156-166: the animation is over, the belts become the reduced belts
FireFinish ==
    \E k \in 1..Len(timers) :
        /\ Due(k)
        /\ timers[k].kind = "finish"
        /\ Commit([board EXCEPT !.topAnimations = <<>>,
                                !.bottomAnimations = <<>>,
                                !.mergedElements = <<>>,
                                !.isShipping = FALSE,
                                !.animationPhase = "idle",
                                !.topBelt = timers[k].result.topBelt,
                                !.bottomBelt = timers[k].result.bottomBelt,
                                !.pendingFinalState = Null,
                                !.animationTimeouts = <<>>],
                  RemoveAt(timers, k))
        /\ UNCHANGED <<reducerVars, problem, appVars, inputs, lastInput, solutionStep>>

\* storage.ts lines 39-56: markProblemCleared keeps one record per problem and mode
markProblemCleared(data, problemId, gameMode) ==
    data \cup {[problemId |-> problemId, gameMode |-> gameMode]}

\* lines 174-177, 183-186 and App.tsx lines 39-46: onClear(), onNavigate('clear')
FireClear ==
    \E k \in 1..Len(timers) :
        /\ Due(k)
        /\ timers[k].kind = "clear"
        /\ gameState' = [gameState EXCEPT !.isCompleted = TRUE]
        /\ clearData' = IF gameState.currentProblem # Null
                        THEN markProblemCleared(clearData, gameState.currentProblem,
                                                gameState.gameMode)
                        ELSE clearData
        /\ handleNavigate("clear")
        /\ timers' = RemoveAt(timers, k)
        /\ UNCHANGED <<reducerVars, problem, board, inputs, lastInput, solutionStep>>

\* 100 ms pass; a callback that is due runs before more time passes
Elapse ==
    /\ Len(timers) > 0
    /\ \A k \in 1..Len(timers) : timers[k].remaining > 0
    /\ timers' = [k \in 1..Len(timers) |-> [timers[k] EXCEPT !.remaining = @ - 1]]
    /\ UNCHANGED <<reducerVars, problem, board, appVars, inputs, lastInput, solutionStep>>

\* the game screen has just been opened on one of the problems
BoardInit ==
    /\ topBelt = <<>>
    /\ bottomBelt = <<>>
    /\ ReducerStart
    /\ problem \in BoardProblems
    /\ board = InitialBoard(problem)
    /\ timers = EffectTimers(InitialBoard(problem), <<>>)
    /\ currentScreen = "game"
    /\ gameState = [InitialGameState EXCEPT !.currentProblem = problem.id,
                                            !.gameMode = problem.difficulty]
    /\ clearData = {}
    /\ inputs = 0
    /\ lastInput = Input("none", -1, FALSE)
    /\ solutionStep = 0

BoardNext ==
    \/ \E tileIndex \in 0..(Len(problem.tiles) - 1) : TileClick(tileIndex)
    \/ Undo
    \/ ClearAll
    \/ Impossible
    \/ NavigateBack
    \/ FireNewItems
    \/ FireEffect
    \/ FireShipping
    \/ FireFinish
    \/ FireClear
    \/ Elapse

\* the player makes at most MaxBoardInputs inputs of any kind
BoardBoundedNext ==
    \/ /\ \E tileIndex \in 0..(Len(problem.tiles) - 1) : TileClick(tileIndex)
       /\ inputs' <= MaxBoardInputs
    \/ Undo /\ inputs' <= MaxBoardInputs
    \/ ClearAll /\ inputs' <= MaxBoardInputs
    \/ Impossible /\ inputs' <= MaxBoardInputs
    \/ NavigateBack /\ inputs' <= MaxBoardInputs
    \/ FireNewItems
    \/ FireEffect
    \/ FireShipping
    \/ FireFinish
    \/ FireClear
    \/ Elapse

BoardSpec == BoardInit /\ [][BoardBoundedNext]_vars

\* the player only selects tiles and takes moves back
PlayNext ==
    \/ \E tileIndex \in 0..(Len(problem.tiles) - 1) : TileClick(tileIndex)
    \/ Undo
    \/ FireNewItems
    \/ FireEffect
    \/ FireShipping
    \/ FireFinish
    \/ FireClear
    \/ Elapse

PlaySpec == BoardInit /\ [][PlayNext]_vars

\* the player stops after MaxQuietInputs inputs
BoardQuietNext ==
    \/ /\ \E tileIndex \in 0..(Len(problem.tiles) - 1) : TileClick(tileIndex)
       /\ inputs' <= MaxQuietInputs
    \/ Undo /\ inputs' <= MaxQuietInputs
    \/ ClearAll /\ inputs' <= MaxQuietInputs
    \/ Impossible /\ inputs' <= MaxQuietInputs
    \/ NavigateBack /\ inputs' <= MaxQuietInputs
    \/ FireNewItems
    \/ FireEffect
    \/ FireShipping
    \/ FireFinish
    \/ FireClear
    \/ Elapse

\* the browser runs a due callback and time goes on
BoardFairSpec ==
    /\ BoardInit
    /\ [][BoardQuietNext]_vars
    /\ WF_vars(FireNewItems \/ FireEffect \/ FireShipping \/ FireFinish
                  \/ FireClear \/ Elapse)

\* ------------------------------------------------------ authored solutions
\* The solution list of a problem is replayed: each listed tile is appended
\* as handleTileClick appends it, removeAllPairs runs on the new belts and
\* the belts become its result.
Range(s) == {s[i] : i \in 1..Len(s)}

\* types/index.ts and data/problems.ts: every authored problem
AuthoredProblems == Range(sampleProblems) \cup Range(sampleProblemsData)

SolutionInit ==
    /\ problem \in AuthoredProblems
    /\ topBelt = problem.initialState.topBelt
    /\ bottomBelt = problem.initialState.bottomBelt
    /\ pc = "done"
    /\ currentTopBelt = <<>>
    /\ currentBottomBelt = <<>>
    /\ allRemovedPairs = <<>>
    /\ hasAnyRemovals = FALSE
    /\ pairIndex = 0
    /\ consumedTop = 0
    /\ consumedBottom = 0
    /\ topAnimations = <<>>
    /\ bottomAnimations = <<>>
    /\ result = NoResult
    /\ previous = NoResult
    /\ single = NoResult
    /\ now = 0
    /\ earlier = NoResult
    /\ chain = <<>>
    /\ board = Null
    /\ timers = <<>>
    /\ currentScreen = "game"
    /\ gameState = InitialGameState
    /\ clearData = {}
    /\ inputs = 0
    /\ lastInput = Null
    /\ solutionStep = 0

\* the next tile of problem.solution is selected (part_007 lines 83-84) and
\* the reducer is called on the new belts
SelectSolutionTile ==
    /\ pc = "done"
    /\ result = NoResult
    /\ solutionStep < Len(problem.solution)
    /\ LET tile == problem.tiles[problem.solution[solutionStep + 1] + 1]
           belts == BeltState(topBelt, bottomBelt)
       IN  /\ topBelt' = NewTop(belts, tile)
           /\ bottomBelt' = NewBottom(belts, tile)
    /\ solutionStep' = solutionStep + 1
    /\ pc' = "entry"
    /\ UNCHANGED <<locals, result, previous, single, now, earlier, chain,
                   problem, board, timers, appVars, inputs, lastInput>>

\* part_007 lines 160-161: the belts become the reducer's result
TakeResult ==
    /\ pc = "done"
    /\ result # NoResult
    /\ topBelt' = result.newTopBelt
    /\ bottomBelt' = result.newBottomBelt
    /\ result' = NoResult
    /\ UNCHANGED <<pc, locals, previous, single, now, earlier, chain, boardVars>>

SolutionNext ==
    \/ SelectSolutionTile
    \/ Enter
    \/ LoopRemove
    \/ LoopBreak
    \/ LoopExit
    \/ Return
    \/ TakeResult

SolutionSpec == SolutionInit /\ [][SolutionNext]_vars

\* ----------------------------------------------------- stated properties
Drop(belt, k) == SubSeq(belt, k + 1, Len(belt))

\* the numbers k of leading positions at which the two belts all differ
DifferingPrefixes(top, bottom) ==
    {k \in 0..Min(Len(top), Len(bottom)) : \A i \in 1..k : top[i] # bottom[i]}

MatchedPrefixLen(top, bottom) ==
    CHOOSE k \in DifferingPrefixes(top, bottom) :
        \A j \in DifferingPrefixes(top, bottom) : j <= k

Returned == pc = "done"

\* C1: removeAllPairs removes exactly k leading symbols from each belt, k
\* being the largest number within both lengths such that the belts differ
\* at every position below k, and returns the remaining suffixes.
C1_RemovesLongestDifferingPrefix ==
    Returned =>
        LET k == MatchedPrefixLen(topBelt, bottomBelt)
        IN  /\ result.newTopBelt = Drop(topBelt, k)
            /\ result.newBottomBelt = Drop(bottomBelt, k)

\* two pairs were removed and the loop stopped at equal heads
C1_Witness ==
    /\ Returned
    /\ MatchedPrefixLen(topBelt, bottomBelt) = 2
    /\ Len(result.newTopBelt) > 0
    /\ Len(result.newBottomBelt) > 0
    /\ result.newTopBelt[1] = result.newBottomBelt[1]

HeadAligned(top, bottom, res) ==
    \E k \in 0..Min(Len(top), Len(bottom)) :
        /\ res.newTopBelt = Drop(top, k)
        /\ res.newBottomBelt = Drop(bottom, k)

\* C2: reduction never reorders symbols: for removePairs and for
\* removeAllPairs the returned belts are suffixes of the given belts and
\* the same number of symbols is removed from the head of each.
C2_OnlyHeadAlignedPrefixRemoved ==
    /\ Returned => HeadAligned(topBelt, bottomBelt, result)
    /\ single # NoResult => HeadAligned(topBelt, bottomBelt, single)

\* both reducers removed something and left something on a belt
C2_Witness ==
    /\ Returned
    /\ single # NoResult
    /\ single.hasRemovals
    /\ Len(result.removedPairs) = 2
    /\ Len(result.newBottomBelt) > 0

\* C3: reducing twice is idempotent: removeAllPairs applied to the belts it
\* returned gives back the same belts, no removed pairs and
\* hasRemovals = false.
C3_SecondReductionIsNoOp ==
    (Returned /\ previous # NoResult) =>
        /\ result.newTopBelt = previous.newTopBelt
        /\ result.newBottomBelt = previous.newBottomBelt
        /\ result.removedPairs = <<>>
        /\ result.hasRemovals = FALSE

\* the second call ran on belts from which the first had removed pairs
C3_Witness ==
    /\ Returned
    /\ previous # NoResult
    /\ previous.hasRemovals
    /\ Len(previous.newTopBelt) > 0
    /\ Len(previous.newBottomBelt) > 0

\* C4: the total length lost by the two belts is twice the number of
\* removed pairs.
C4_LengthLostIsTwicePairs ==
    Returned =>
        (Len(topBelt) + Len(bottomBelt))
          - (Len(result.newTopBelt) + Len(result.newBottomBelt))
        = 2 * Len(result.removedPairs)

\* three pairs were removed
C4_Witness ==
    /\ Returned
    /\ Len(result.removedPairs) = 3
    /\ Len(topBelt) + Len(bottomBelt) = 6
\* C5 as stated: the reducer's result carries a solved flag, true exactly
\* when both returned remainders are empty.
C5_ResultCarriesSolvedFlag ==
    Returned =>
        /\ "solved" \in DOMAIN result
        /\ result.solved = (result.newTopBelt = <<>> /\ result.newBottomBelt = <<>>)

\* C5 (amended): the result has no solved field; the solved test is the
\* separate function isCleared, which on the returned remainders is true
\* exactly when both are empty.
C5_SolvedIsSeparateTest ==
    Returned =>
        /\ DOMAIN result = {"newTopBelt", "newBottomBelt", "removedPairs", "hasRemovals",
                            "topAnimations", "bottomAnimations", "mergedElements"}
        /\ isCleared(result.newTopBelt, result.newBottomBelt)
             <=> (result.newTopBelt = <<>> /\ result.newBottomBelt = <<>>)

\* a reduction emptied exactly one belt: not solved
C5_Witness ==
    /\ Returned
    /\ result.hasRemovals
    /\ result.newTopBelt = <<>>
    /\ result.newBottomBelt # <<>>
    /\ ~isCleared(result.newTopBelt, result.newBottomBelt)

NothingRemoved(top, bottom, res) ==
    /\ res.newTopBelt = top
    /\ res.newBottomBelt = bottom
    /\ res.removedPairs = <<>>
    /\ res.hasRemovals = FALSE
    /\ isCleared(res.newTopBelt, res.newBottomBelt) <=> (top = <<>> /\ bottom = <<>>)

\* C6: if either belt is empty the reducer (removePairs or removeAllPairs)
\* removes nothing: the belts come back unchanged, removedPairs is empty,
\* hasRemovals is false, and the state is solved iff both belts are empty.
C6_EmptyInputRemovesNothing ==
    (topBelt = <<>> \/ bottomBelt = <<>>) =>
        /\ Returned => NothingRemoved(topBelt, bottomBelt, result)
        /\ single # NoResult => NothingRemoved(topBelt, bottomBelt, single)

\* both reducers were called with exactly one empty belt
C6_Witness ==
    /\ Returned
    /\ single # NoResult
    /\ topBelt = <<>>
    /\ bottomBelt # <<>>
    /\ previous = NoResult

PairSymbols(pairs) == [i \in 1..Len(pairs) |-> <<pairs[i].top, pairs[i].bottom>>]

\* C7: for top = ST and bottom = TS the reducer removes (S,T) and then
\* (T,S), leaves both sequences empty, and the state is solved.
C7_ExampleST_TS ==
    (Returned /\ topBelt = <<"S", "T">> /\ bottomBelt = <<"T", "S">>) =>
        /\ PairSymbols(result.removedPairs) = << <<"S", "T">>, <<"T", "S">> >>
        /\ result.newTopBelt = <<>>
        /\ result.newBottomBelt = <<>>
        /\ isCleared(result.newTopBelt, result.newBottomBelt)

C7_Witness ==
    /\ Returned
    /\ topBelt = <<"S", "T">>
    /\ bottomBelt = <<"T", "S">>
    /\ result.hasRemovals

\* C8 as stated: for top = SS and bottom = TT the reducer performs no
\* removals: both sequences come back unchanged and no pair is recorded.
C8_ExampleSS_TT_NoRemovals ==
    (Returned /\ topBelt = <<"S", "S">> /\ bottomBelt = <<"T", "T">>) =>
        /\ result.newTopBelt = topBelt
        /\ result.newBottomBelt = bottomBelt
        /\ result.removedPairs = <<>>

\* C8 (amended): for top = SS and bottom = TT the heads differ at both
\* positions, so the reducer removes (S,T) twice and leaves both
\* sequences empty.
C8_ExampleSS_TT_AllRemoved ==
    (Returned /\ topBelt = <<"S", "S">> /\ bottomBelt = <<"T", "T">>) =>
        /\ PairSymbols(result.removedPairs) = << <<"S", "T">>, <<"S", "T">> >>
        /\ result.newTopBelt = <<>>
        /\ result.newBottomBelt = <<>>

C8_Witness ==
    /\ Returned
    /\ topBelt = <<"S", "S">>
    /\ bottomBelt = <<"T", "T">>
    /\ previous = NoResult

\* C9: removedPairs is the ordered list of removals: entry i holds the
\* symbols at position i of the two given belts with topIndex =
\* bottomIndex = i, and hasRemovals is true iff the list is non-empty.
C9_RemovedPairsInOrder ==
    Returned =>
        /\ \A i \in 1..Len(result.removedPairs) :
              /\ i <= Min(Len(topBelt), Len(bottomBelt))
              /\ result.removedPairs[i] =
                    [top |-> topBelt[i], bottom |-> bottomBelt[i],
                     topIndex |-> i - 1, bottomIndex |-> i - 1]
        /\ result.hasRemovals <=> (Len(result.removedPairs) > 0)

\* two removals of different orientation were recorded
C9_Witness ==
    /\ Returned
    /\ Len(result.removedPairs) >= 2
    /\ result.removedPairs[1].top # result.removedPairs[2].top

\* C10: removeAllPairs is a greedy single pass that terminates: an
\* iteration that stays in the loop removes exactly the head of each
\* working belt, the count of removing iterations never exceeds
\* min(|topBelt|, |bottomBelt|), an iteration that removes nothing leaves
\* the loop for good, and a call that entered the loop returns.
C10_LoopStep ==
    (pc = "while") =>
        \/ /\ pc' = "while"
           /\ Len(currentTopBelt) > 0 /\ Len(currentBottomBelt) > 0
           /\ currentTopBelt' = Tail(currentTopBelt)
           /\ currentBottomBelt' = Tail(currentBottomBelt)
           /\ pairIndex' = pairIndex + 1
           /\ pairIndex' <= Min(Len(topBelt), Len(bottomBelt))
           /\ Len(allRemovedPairs') = pairIndex'
        \/ /\ pc' = "after"
           /\ UNCHANGED locals

C10_AfterLoop ==
    (pc = "after") => (pc' = "done" /\ UNCHANGED locals)

C10_GreedySinglePassTerminates ==
    /\ [][C10_LoopStep /\ C10_AfterLoop]_vars
    /\ (pc = "while") ~> (pc = "done")

\* the loop ran the largest possible number of removing iterations
C10_Witness ==
    /\ Returned
    /\ pairIndex = MaxLen
    /\ Len(topBelt) = MaxLen
\* C11 as stated: two calls of removeAllPairs with the same two belts
\* return results that are equal in every field.
C11_SameArgumentsSameResult ==
    (Returned /\ earlier # NoResult) => result = earlier

WithoutIds(res) ==
    [res EXCEPT !.mergedElements =
        [i \in 1..Len(res.mergedElements) |->
            [pairIndex |-> res.mergedElements[i].pairIndex,
             topChar |-> res.mergedElements[i].topChar,
             bottomChar |-> res.mergedElements[i].bottomChar,
             position |-> res.mergedElements[i].position]]]

InsideCall == pc \in {"while", "after"} \/ (pc = "entry" /\ pc' = "while")

\* C11 (amended): two calls with the same two belts return results equal
\* in every field except the id of each merged element, which embeds the
\* time of the call; a call changes nothing but its own locals and its
\* return value.
C11_SameResultUpToIds ==
    /\ []((Returned /\ earlier # NoResult) => WithoutIds(result) = WithoutIds(earlier))
    /\ [][InsideCall => UNCHANGED <<args, previous, earlier, single, chain, boardVars>>]_vars

\* the second call removed pairs and gave its merged elements other ids
C11_Witness ==
    /\ Returned
    /\ earlier # NoResult
    /\ Len(result.removedPairs) = 2
    /\ result.mergedElements # earlier.mergedElements

\* C18: removePairs removes at most one pair per call: with both belts
\* non-empty and heads S/T or T/S it removes exactly the first symbol of
\* each belt and reports one pair; otherwise it returns the belts
\* unchanged with hasRemovals = false.
C18_RemovePairsOnePair ==
    single # NoResult =>
        IF /\ topBelt # <<>> /\ bottomBelt # <<>>
           /\ <<topBelt[1], bottomBelt[1]>> \in {<<"S", "T">>, <<"T", "S">>}
        THEN /\ single.newTopBelt = Tail(topBelt)
             /\ single.newBottomBelt = Tail(bottomBelt)
             /\ single.hasRemovals = TRUE
             /\ single.removedPairs = <<[top |-> topBelt[1], bottom |-> bottomBelt[1]]>>
        ELSE /\ single.newTopBelt = topBelt
             /\ single.newBottomBelt = bottomBelt
             /\ single.hasRemovals = FALSE
             /\ single.removedPairs = <<>>

\* one pair was removed although the next heads are a pair too
C18_Witness ==
    /\ single # NoResult
    /\ single.hasRemovals
    /\ Len(single.newTopBelt) > 0
    /\ Len(single.newBottomBelt) > 0
    /\ single.newTopBelt[1] # single.newBottomBelt[1]

ChainFinished == chain # <<>> /\ ~chain[Len(chain)].hasRemovals

ChainRemoved ==
    [i \in 1..(Len(chain) - 1) |->
        <<chain[i].removedPairs[1].top, chain[i].removedPairs[1].bottom>>]

\* C19: the two reducers agree: removePairs called on its own output until
\* hasRemovals is false ends with the belts, and removes the (top, bottom)
\* symbols in the order, of one call of removeAllPairs.
C19_ReducersAgree ==
    (Returned /\ ChainFinished) =>
        /\ chain[Len(chain)].newTopBelt = result.newTopBelt
        /\ chain[Len(chain)].newBottomBelt = result.newBottomBelt
        /\ ChainRemoved = PairSymbols(result.removedPairs)

\* removePairs needed three calls: two removals and the final no-op
C19_Witness ==
    /\ Returned
    /\ ChainFinished
    /\ Len(chain) = 3
    /\ Len(result.newTopBelt) > 0
Belts2(b) == <<b.topBelt, b.bottomBelt>>

TileStep == inputs' = inputs + 1 /\ lastInput'.kind = "tile"

AppendsTile(b, c, tile) ==
    /\ c.topBelt = b.topBelt \o tile.top
    /\ c.bottomBelt = b.bottomBelt \o tile.bottom

AppendsSomeTile ==
    \E i \in 1..Len(problem.tiles) : AppendsTile(board, board', problem.tiles[i])

Reduced(top, bottom) ==
    LET res == removeAllPairs(top, bottom, 0)
    IN  <<res.newTopBelt, res.newBottomBelt>>

\* C12 as stated: every step that changes a belt of the game board either
\* appends one tile's fragments to the belts or replaces the belts by the
\* reducer's result for the current belts.
C12_OnlyTileOrReduction ==
    [][Belts2(board') # Belts2(board) =>
          \/ AppendsSomeTile
          \/ Belts2(board') = Reduced(board.topBelt, board.bottomBelt)]_vars

\* an animation ends: the belts become the reducer's result for the belts
\* its callback closed over
EndsReduction ==
    \E k \in 1..Len(timers) :
        /\ timers[k].kind = "finish"
        /\ timers[k].remaining = 0
        /\ Belts2(timers[k].result) = Reduced(timers[k].topBelt, timers[k].bottomBelt)
        /\ Belts2(board') = Belts2(timers[k].result)

TakesBack ==
    /\ board.currentHistoryIndex > 0
    /\ board'.currentHistoryIndex = board.currentHistoryIndex - 1
    /\ Belts2(board') = Belts2(board.beltHistory[board.currentHistoryIndex])

Resets ==
    /\ Belts2(board') = <<problem.initialState.topBelt, problem.initialState.bottomBelt>>
    /\ board'.currentHistoryIndex = 0
    /\ Len(board'.beltHistory) = 1

\* C12 (amended): every step that changes a belt either appends one tile's
\* fragments (tile selection), replaces the belts by the reducer's result
\* for the belts an ending animation was started on (reduction), sets them
\* to the preceding history entry (undo) or sets them to the problem's
\* initial state (reset).
C12_TileReductionUndoReset ==
    [][Belts2(board') # Belts2(board) =>
          \/ TileStep /\ AppendsSomeTile
          \/ EndsReduction
          \/ lastInput'.kind = "undo" /\ TakesBack
          \/ lastInput'.kind = "reset" /\ Resets]_vars

\* an undo changed the belts
C12_Witness ==
    /\ lastInput.kind = "undo"
    /\ lastInput.accepted
    /\ board.currentHistoryIndex = 0
    /\ Len(board.beltHistory) = 2
    /\ Belts2(board) # Belts2(board.beltHistory[2])

\* C13: a tile is contributed atomically: a tile selection either changes
\* nothing or, in one step, appends the tile's top fragment to the top belt
\* and its bottom fragment to the bottom belt; the symbols already on the
\* belts stay in front in the same order.
C13_TileAppendedAtomically ==
    [][TileStep =>
          \/ board' = board
          \/ /\ lastInput'.accepted
             /\ AppendsTile(board, board', problem.tiles[lastInput'.tile + 1])
             /\ SubSeq(board'.topBelt, 1, Len(board.topBelt)) = board.topBelt
             /\ SubSeq(board'.bottomBelt, 1, Len(board.bottomBelt)) = board.bottomBelt]_vars

\* a tile with two different non-empty fragments has just been appended to
\* a non-empty belt
C13_Witness ==
    /\ lastInput.kind = "tile"
    /\ lastInput.accepted
    /\ board.newTopItemsCount > 0
    /\ board.newBottomItemsCount > 0
    /\ problem.tiles[lastInput.tile + 1].top # problem.tiles[lastInput.tile + 1].bottom
    /\ Len(board.topBelt) > board.newTopItemsCount

\* C16 as stated: a problem authored with solvable = false is never solved
\* in play: from its initial state neither the initial reduction nor any
\* tile selections lead to both belts empty, and the game never reports
\* it cleared.
C16_UnsolvableNeverSolved ==
    (problem.solvable = FALSE) =>
        /\ ~(Mounted /\ isCleared(board.topBelt, board.bottomBelt))
        /\ ~(gameState.isCompleted /\ lastInput.kind # "impossible")

\* C20: input is blocked during animation: a tile click that arrives while
\* animationPhase is not idle, or while a new-item count is positive,
\* changes nothing of the board and schedules no timer.
C20_ClickBlockedDuringAnimation ==
    [][(/\ TileStep
        /\ \/ board.animationPhase # "idle"
           \/ board.newTopItemsCount > 0
           \/ board.newBottomItemsCount > 0)
       => UNCHANGED <<board, timers>>]_vars

\* a click was refused while the new-item marks were shown and one belt was
\* empty
C20_Witness ==
    /\ lastInput.kind = "tile"
    /\ ~lastInput.accepted
    /\ board.animationPhase = "idle"
    /\ board.newBottomItemsCount > 0
    /\ ~TilesDisabled(board)
\* the player makes no further input: every input of the behaviour has been
\* made.  A behaviour with fewer inputs is covered too: an undo pressed on
\* the freshly opened board is refused and changes nothing but the count.
NoFurtherInput == inputs = MaxQuietInputs

Cleared == gameState.isCompleted /\ currentScreen = "clear"

\* C14: the puzzle is solved when both belts become empty: whenever the
\* belts of the mounted game board are both empty and the player makes no
\* further input, onClear is eventually called (isCompleted is set) and the
\* screen becomes 'clear'.
C14_EmptyBeltsLeadToClear ==
    (Mounted /\ isCleared(board.topBelt, board.bottomBelt) /\ NoFurtherInput) ~> Cleared

\* the clear screen was reached by a reduction that emptied both belts
C14_Witness ==
    /\ Cleared
    /\ lastInput.kind = "tile"
    /\ lastInput.accepted
    /\ isCleared(board.topBelt, board.bottomBelt)
    /\ Len(board.beltHistory) > 1

Quiescent ==
    /\ board.animationPhase = "idle"
    /\ board.isShipping = FALSE
    /\ timers = <<>>

CurrentEntry(b) == b.beltHistory[b.currentHistoryIndex + 1]

\* C17 as stated: after an accepted tile selection without further input
\* the board eventually is quiescent (animationPhase idle, isShipping false,
\* no pending timer) with the belts equal to removeAllPairs of the belts
\* right after the selection, which the selection recorded as the current
\* history entry.
C17_SelectionLeadsToReducedBelts ==
    /\ [][TileStep /\ lastInput'.accepted =>
              Belts2(CurrentEntry(board')) = Reduced(board'.topBelt, board'.bottomBelt)]_vars
    /\ (NoFurtherInput /\ lastInput.kind = "tile" /\ lastInput.accepted)
          ~> (Quiescent /\ Belts2(board) = Belts2(CurrentEntry(board)))
SolutionPlayed ==
    /\ pc = "done"
    /\ result = NoResult
    /\ solutionStep = Len(problem.solution)

\* C15 as stated: for every authored problem with solvable = true and a
\* non-empty solution list, selecting the tiles of the solution in order
\* from the initial state, with a full reduction after each selection, ends
\* with both belts empty.
C15_AuthoredSolutionsSolve ==
    (problem.solvable /\ Len(problem.solution) > 0 /\ SolutionPlayed)
        => isCleared(topBelt, bottomBelt)
BothNonEmpty(b) == Len(b.topBelt) > 0 /\ Len(b.bottomBelt) > 0

\* C21: tiles are disabled while neither belt is empty: a tile click that
\* arrives when both belts are non-empty changes nothing, and a click that
\* changes the board was made with at least one belt empty.
C21_TilesDisabledWhenBothNonEmpty ==
    [][TileStep =>
          /\ BothNonEmpty(board) => UNCHANGED <<board, timers>>
          /\ board' # board => ~BothNonEmpty(board)]_vars

\* a click on a settled board with both belts non-empty was refused
C21_Witness ==
    /\ lastInput.kind = "tile"
    /\ ~lastInput.accepted
    /\ BothNonEmpty(board)
    /\ ~Blocked(board)
    /\ timers = <<>>

HistoryWellFormed(b) ==
    /\ Len(b.beltHistory) >= 1
    /\ b.beltHistory[1] = BeltState(problem.initialState.topBelt,
                                    problem.initialState.bottomBelt)
    /\ 0 <= b.currentHistoryIndex
    /\ b.currentHistoryIndex < Len(b.beltHistory)

\* C22: every accepted tile selection records the new state in the history:
\* beltHistory becomes its former entries 0..currentHistoryIndex followed by
\* one entry holding removeAllPairs of the appended belts, later entries are
\* discarded and currentHistoryIndex is the last index; in every state
\* beltHistory is non-empty, starts with the problem's initial state and
\* 0 <= currentHistoryIndex < length of beltHistory.
C22_SelectionRecordedInHistory ==
    /\ []HistoryWellFormed(board)
    /\ [][TileStep /\ lastInput'.accepted =>
             LET kept == SubSeq(board.beltHistory, 1, board.currentHistoryIndex + 1)
                 reduced == Reduced(board'.topBelt, board'.bottomBelt)
             IN  /\ board'.beltHistory = Append(kept, BeltState(reduced[1], reduced[2]))
                 /\ board'.currentHistoryIndex = Len(board'.beltHistory) - 1]_vars

\* the third input was an accepted selection and left a history of the
\* initial state and one recorded entry
C22_Witness ==
    /\ lastInput.kind = "tile"
    /\ lastInput.accepted
    /\ inputs = 3
    /\ Len(board.beltHistory) = 2
    /\ board.currentHistoryIndex = 1
    /\ board.beltHistory[2] # board.beltHistory[1]
\* C24 as stated: belts and history stay consistent under every
\* interleaving of tile clicks, undo and timer callbacks: in every quiescent
\* state of the game board the belts equal the full reduction of
\* beltHistory[currentHistoryIndex].
C24_SettledBeltsMatchHistory ==
    Settled => Belts2(board) = Reduced(CurrentEntry(board).topBelt,
                                       CurrentEntry(board).bottomBelt)
UndoStep == inputs' = inputs + 1 /\ lastInput'.kind = "undo"

\* C23 as stated: undo takes back one move: when currentHistoryIndex > 0
\* and animationPhase is idle, handleUndo decrements currentHistoryIndex and
\* sets the belts to beltHistory at the new index, so that an undo pressed
\* at rest after a tile selection made at rest gives the belts before that
\* selection; when currentHistoryIndex is 0 or an animation is running,
\* handleUndo changes nothing.
C23_UndoTakesBackOneMove ==
    [][UndoStep =>
          IF board.currentHistoryIndex > 0 /\ board.animationPhase = "idle"
          THEN /\ board'.currentHistoryIndex = board.currentHistoryIndex - 1
               /\ Belts2(board') = Belts2(CurrentEntry(board'))
               /\ (/\ Settled
                   /\ lastInput.kind = "tile"
                   /\ lastInput.accepted
                   /\ lastInput.settled) => Belts2(board') = Belts2(lastInput.before)
          ELSE UNCHANGED <<board, timers>>]_vars
ResetStep == inputs' = inputs + 1 /\ lastInput'.kind = "reset"

InitialBelts == <<problem.initialState.topBelt, problem.initialState.bottomBelt>>

\* C25 as stated: reset is allowed at any time: after handleClearAll
\* beltHistory is the single initial entry, currentHistoryIndex is 0, both
\* new-item counts are 0 and the belts are the problem's initial state, and
\* until the next input the belts are the initial state or its reduction:
\* no timer scheduled before the reset replaces them with a state derived
\* from the belts before the reset.
C25_ResetRestoresInitialState ==
    /\ [][ResetStep =>
             /\ board'.beltHistory = <<BeltState(InitialBelts[1], InitialBelts[2])>>
             /\ board'.currentHistoryIndex = 0
             /\ board'.newTopItemsCount = 0
             /\ board'.newBottomItemsCount = 0
             /\ Belts2(board') = InitialBelts]_vars
    /\ [](lastInput.kind = "reset" =>
             \/ Belts2(board) = InitialBelts
             \/ Belts2(board) = Reduced(InitialBelts[1], InitialBelts[2]))
InputStep == inputs' = inputs + 1

AnimationsEmptied(b) ==
    /\ b.topAnimations = <<>>
    /\ b.bottomAnimations = <<>>
    /\ b.mergedElements = <<>>
    /\ b.isShipping = FALSE

\* the phase changes only along idle -> merging -> shipping -> idle, or to
\* idle by reset
PhaseOrder ==
    [][board'.animationPhase # board.animationPhase =>
          \/ board.animationPhase = "idle" /\ board'.animationPhase = "merging"
          \/ board.animationPhase = "merging" /\ board'.animationPhase = "shipping"
          \/ board.animationPhase = "shipping" /\ board'.animationPhase = "idle"
          \/ ResetStep /\ board'.animationPhase = "idle"]_vars

\* a timer callback replaces the belts only in the step that returns the
\* phase to idle, and that step empties the animations
ReplacedOnReturnToIdle ==
    [][(~InputStep /\ Belts2(board') # Belts2(board)) =>
          /\ board.animationPhase # "idle"
          /\ board'.animationPhase = "idle"
          /\ AnimationsEmptied(board')]_vars

\* during an animation the belts are the unreduced belts it was started on
UnreducedWhileAnimating ==
    [](board.animationPhase \in {"merging", "shipping"} =>
          \E k \in 1..Len(timers) :
              /\ timers[k].kind = "finish"
              /\ Belts2(timers[k]) = Belts2(board)
              /\ Belts2(timers[k].result) # Belts2(board))

\* C26 as stated: animationPhase only moves idle -> merging -> shipping ->
\* idle (or back to idle by reset); the belts are replaced by the reduced
\* belts only in the step that returns the phase to idle, which also empties
\* topAnimations, bottomAnimations and mergedElements and clears isShipping;
\* while the phase is merging or shipping the belts still hold the unreduced
\* sequences.
C26_PhaseOrderAndBeltReplacement ==
    /\ PhaseOrder
    /\ ReplacedOnReturnToIdle
    /\ UnreducedWhileAnimating
\* the pending completion timers (800 ms) of removal animations
FinishTimers(tms) == {tms[k].id : k \in {j \in 1..Len(tms) : tms[j].kind = "finish"}}

\* C27 as stated: at most one pair-removal animation is in flight: no
\* callback starts a new removal (schedules its completion timer) while
\* animationPhase is not idle or while the completion timer of an earlier
\* removal is still pending.
C27_OneAnimationInFlight ==
    [][~(FinishTimers(timers') \subseteq FinishTimers(timers)) =>
          /\ board.animationPhase = "idle"
          /\ FinishTimers(timers) = {}]_vars
DeadEnd == Settled /\ BothNonEmpty(board)

\* C28: a settled state with both belts non-empty is a dead end for tile
\* play: its belts are fully reduced (their heads are equal), a tile
\* selection made in it changes nothing, and the board leaves it only by
\* undo or reset.
C28_SettledNonEmptyIsDeadEnd ==
    /\ [](DeadEnd => /\ board.topBelt[1] = board.bottomBelt[1]
                     /\ Reduced(board.topBelt, board.bottomBelt) = Belts2(board))
    /\ [][DeadEnd =>
             /\ TileStep => UNCHANGED <<board, timers>>
             /\ board' # board => InputStep /\ lastInput'.kind \in {"undo", "reset"}]_vars

\* a tile was tried in a dead end and the board stayed in it
C28_Witness ==
    /\ DeadEnd
    /\ lastInput.kind = "tile"
    /\ ~lastInput.accepted
    /\ lastInput.settled
    /\ lastInput.before = BeltState(board.topBelt, board.bottomBelt)
\* the 500 ms clear timer runs: onClear() and onNavigate('clear')
ClearStep ==
    /\ ~InputStep
    /\ \E k \in 1..Len(timers) :
          /\ timers[k].kind = "clear"
          /\ timers[k].remaining = 0
          /\ timers' = RemoveAt(timers, k)
    /\ gameState'.isCompleted

\* C29 as stated: the switch to the clear screen caused by solving happens
\* only while the solved state still holds: when the clear timer calls
\* onClear and onNavigate('clear') the game screen is still displayed and
\* both belts are still empty (an input made during the delay prevents it),
\* and onClear fires at most once per solve.
C29_ClearOnlyWhileSolved ==
    [][ClearStep =>
          /\ currentScreen = "game"
          /\ isCleared(board.topBelt, board.bottomBelt)
          /\ ~gameState.isCompleted]_vars
\* the player has pressed "this problem cannot be solved"
ImpossibleStep ==
    /\ inputs' = inputs + 1
    /\ lastInput'.kind = "impossible"

\* C30: the "cannot be solved" action is taken only on a problem whose
\* difficulty is 'undecidable'; it switches the screen to 'clear' and, in that
\* step, neither sets isCompleted nor writes a clear record (onClear is not
\* called), whatever the problem's solvable flag
C30_ImpossibleNavigatesWithoutClear ==
    [][ImpossibleStep =>
          /\ problem.difficulty = "undecidable"
          /\ currentScreen = "game"
          /\ currentScreen' = "clear"
          /\ gameState' = gameState
          /\ clearData' = clearData]_vars

\* the action has been taken on an unfinished game: the clear screen is shown,
\* the game is not completed and no clear record exists
C30_Witness ==
    /\ lastInput.kind = "impossible"
    /\ problem.difficulty = "undecidable"
    /\ currentScreen = "clear"
    /\ ~gameState.isCompleted
    /\ clearData = {}
\* the positions, counted from 1, at which a head compared by the reducers
\* is a character other than 'S' or 'T'
ForeignPositions(top, bottom) ==
    {k \in 1..Min(Len(top), Len(bottom)) :
        top[k] \notin Symbols \/ bottom[k] \notin Symbols}

BothHeadsSymbols(top, bottom) ==
    /\ Len(top) > 0 /\ Len(bottom) > 0
    /\ top[1] \in Symbols /\ bottom[1] \in Symbols

\* C31: only S/T and T/S heads count as a pair.  removeAllPairs removes a
\* pair only when both heads are 'S' or 'T', so it stops before the first
\* position at which a head is another character and returns the belts from
\* that position on; removePairs removes nothing when a head of its arguments
\* is another character, even though the heads are unequal; when both heads
\* are in {S,T}, either function removes a pair exactly when the heads are
\* unequal.
C31_OnlySashimiDandelionPair ==
    /\ (pc \in {"while", "after"}) =>
          \A k \in ForeignPositions(topBelt, bottomBelt) : consumedTop < k
    /\ (pc = "done" /\ result # NoResult) =>
          /\ \A k \in ForeignPositions(topBelt, bottomBelt) :
                /\ Len(result.removedPairs) < k
                /\ Len(topBelt) - Len(result.newTopBelt) < k
                /\ Len(bottomBelt) - Len(result.newBottomBelt) < k
          /\ 1 \in ForeignPositions(topBelt, bottomBelt) =>
                /\ ~result.hasRemovals
                /\ result.newTopBelt = topBelt
                /\ result.newBottomBelt = bottomBelt
          /\ BothHeadsSymbols(topBelt, bottomBelt) =>
                (result.hasRemovals <=> topBelt[1] # bottomBelt[1])
    /\ (single # NoResult) =>
          /\ 1 \in ForeignPositions(topBelt, bottomBelt) =>
                /\ ~single.hasRemovals
                /\ single.removedPairs = <<>>
                /\ single.newTopBelt = topBelt
                /\ single.newBottomBelt = bottomBelt
          /\ BothHeadsSymbols(topBelt, bottomBelt) =>
                (single.hasRemovals <=> topBelt[1] # bottomBelt[1])

\* removeAllPairs removed one pair and stopped at unequal heads of which one
\* is not 'S' or 'T'; removePairs was called on belts with such heads
C31_Witness ==
    /\ pc = "done"
    /\ result # NoResult
    /\ Len(result.removedPairs) = 1
    /\ 2 \in ForeignPositions(topBelt, bottomBelt)
    /\ topBelt[2] # bottomBelt[2]
    /\ result.newTopBelt = SubSeq(topBelt, 2, Len(topBelt))
    /\ result.newBottomBelt = SubSeq(bottomBelt, 2, Len(bottomBelt))
    /\ single # NoResult
    /\ single.hasRemovals
====
